---- MODULE Spec2Model ----
(***************************************************************************)
(* A model of bottler: a static file server (src/main.py) that layers a    *)
(* security-header policy (src/utils/security_headers.py) over routes      *)
(* compiled from a configuration, with a graceful shutdown sequence.       *)
(*                                                                         *)
(* Python values are modelled as follows.                                  *)
(*  - A str is a TLA+ string; f-strings and os.path.join are string        *)
(*    concatenation, slicing is SubSeq.                                    *)
(*  - A header or directive value is a record [kind, val]: kind "str" for  *)
(*    a str, kind "bool" for True / False (val is what str() prints).      *)
(*  - A dict is the sequence of its items [k, v] in insertion order, keys  *)
(*    unique; None and the empty dict are both <<>> where the code only    *)
(*    tests truthiness; None and '' are both "" where the code only tests  *)
(*    truthiness of a str.                                                 *)
(***************************************************************************)
EXTENDS Naturals, Sequences, FiniteSets, TLC

VARIABLES
    config,        \* the parsed configuration file (yaml.safe_load)
    app,           \* what construct_app built from it
    SERVER_READY,  \* main.py: the module-level readiness flag
    resp,          \* the last request handled and the response to it
    options,       \* the command line options of server()
    inflight,      \* gevent_pool: how many request greenlets are in flight
    waiters,       \* the wait() greenlets spawned by shutdown()
    signals,       \* history: how many shutdown signals were delivered
    elapsed,       \* history: time since the first signal, capped
    exit,          \* "" while the process runs, else why wait() left join()
    h_in,          \* inputs of the function under test (function specs)
    h_out          \* its result

vars == <<config, app, options, SERVER_READY, resp, inflight, waiters,
          signals, elapsed, exit, h_in, h_out>>

-----------------------------------------------------------------------------
(* Python values and dicts *)

S(s) == [kind |-> "str", val |-> s]
PyTrue == [kind |-> "bool", val |-> "True"]
PyFalse == [kind |-> "bool", val |-> "False"]

\* isinstance(v, bool)
IsBool(v) == v.kind = "bool"

\* v is False
IsFalse(v) == v = PyFalse

\* str(v), as an f-string formats it
Str(v) == v.val

Item(k, v) == [k |-> k, v |-> v]

Keys(d) == {d[i].k : i \in DOMAIN d}

Has(d, k) == k \in Keys(d)

\* d[k], for k in d
Get(d, k) == d[CHOOSE i \in DOMAIN d : d[i].k = k].v

\* d with d[k] = v executed on it: an existing key keeps its position
Put(d, k, v) ==
    IF Has(d, k)
    THEN [i \in DOMAIN d |-> IF d[i].k = k THEN Item(k, v) ELSE d[i]]
    ELSE Append(d, Item(k, v))

\* {**a, **b}
RECURSIVE Merge(_, _)
Merge(a, b) ==
    IF b = <<>> THEN a ELSE Merge(Put(a, Head(b).k, Head(b).v), Tail(b))

\* {k: v for k, v in d.items() if v is not False}
RECURSIVE DropFalse(_)
DropFalse(d) ==
    IF d = <<>> THEN <<>>
    ELSE IF IsFalse(Head(d).v) THEN DropFalse(Tail(d))
    ELSE <<Head(d)>> \o DropFalse(Tail(d))

\* {k: v for k, v in d.items() if k in names}
RECURSIVE OnlyKeys(_, _)
OnlyKeys(d, names) ==
    IF d = <<>> THEN <<>>
    ELSE IF Head(d).k \in names THEN <<Head(d)>> \o OnlyKeys(Tail(d), names)
    ELSE OnlyKeys(Tail(d), names)

\* '; '.join(entries)
RECURSIVE JoinSemi(_)
JoinSemi(entries) ==
    IF entries = <<>> THEN ""
    ELSE IF Len(entries) = 1 THEN Head(entries)
    ELSE Head(entries) \o "; " \o JoinSemi(Tail(entries))

StartsWith(s, p) == Len(s) >= Len(p) /\ SubSeq(s, 1, Len(p)) = p

EndsWith(s, p) ==
    Len(s) >= Len(p) /\ SubSeq(s, Len(s) - Len(p) + 1, Len(s)) = p

-----------------------------------------------------------------------------
(* utils/security_headers.py *)

sh_defaults ==
    << Item("Strict-Transport-Security",
            S("max-age=63072000; includeSubDomains; preload")),
       Item("Expect-CT", S("max-age=86400, enforce")),
       Item("Referrer-Policy", S("no-referrer, strict-origin-when-cross-origin")),
       Item("X-XSS-Protection", S("1; mode=block")),
       Item("X-Content-Type-Options", S("nosniff")),
       Item("X-Frame-Options", S("DENY")) >>

csp_defaults ==
    << Item("default-src", S("'none'")),
       Item("base-uri", S("'none'")),
       Item("form-action", S("'none'")),
       Item("frame-ancestors", S("'none'")),
       Item("block-all-mixed-content", PyTrue) >>

fp_names ==
    << "accelerometer", "ambient-light-sensor", "autoplay", "battery",
       "camera", "display-capture", "document-domain", "encrypted-media",
       "execution-while-not-rendered", "execution-while-out-of-viewport",
       "fullscreen", "geolocation", "gyroscope", "layout-animations",
       "legacy-image-formats", "magnetometer", "microphone", "midi",
       "navigation-override", "oversized-images", "payment",
       "picture-in-picture", "publickey-credentials-get", "screen-wake-lock",
       "sync-xhr", "usb", "wake-lock", "web-share", "xr-spatial-tracking" >>

fp_defaults == [i \in DOMAIN fp_names |-> Item(fp_names[i], S("'none'"))]

\* The keyword parameters __init__ declares.
InitParams == {"sh_updates", "csp_updates", "fp_updates"}

\* The value a declared keyword parameter is bound to: its argument, else
\* its default None.
Arg(kwargs, name) == IF name \in DOMAIN kwargs THEN kwargs[name] ELSE <<>>

\* SecurityHeadersPlugin(**kwargs): the instance's three tables. A keyword
\* __init__ does not declare makes the call raise TypeError (type_error);
\* its value reaches no table.
SecurityHeadersPlugin(kwargs) ==
    [ sh_defaults |->
          IF Arg(kwargs, "sh_updates") # <<>>
          THEN Merge(sh_defaults, Arg(kwargs, "sh_updates")) ELSE sh_defaults,
      csp_defaults |->
          IF Arg(kwargs, "csp_updates") # <<>>
          THEN Merge(csp_defaults, Arg(kwargs, "csp_updates")) ELSE csp_defaults,
      fp_defaults |->
          IF Arg(kwargs, "fp_updates") # <<>>
          THEN Merge(fp_defaults, Arg(kwargs, "fp_updates")) ELSE fp_defaults,
      type_error |-> (DOMAIN kwargs) \ InitParams # {} ]

get_sh(self, sh_updates) ==
    LET sh_dict == IF sh_updates # <<>>
                   THEN Merge(self.sh_defaults, sh_updates)
                   ELSE self.sh_defaults
    IN DropFalse(sh_dict)

RECURSIVE csp_entries(_)
csp_entries(d) ==
    IF d = <<>> THEN <<>>
    ELSE LET k == Head(d).k
             v == Head(d).v
         IN IF IsBool(v)
            THEN (IF v = PyTrue THEN <<k>> ELSE <<>>) \o csp_entries(Tail(d))
            ELSE <<k \o " " \o Str(v)>> \o csp_entries(Tail(d))

get_csp(self, csp_updates) ==
    LET csp_dict == IF csp_updates # <<>>
                    THEN Merge(self.csp_defaults, csp_updates)
                    ELSE self.csp_defaults
    IN JoinSemi(csp_entries(csp_dict))

RECURSIVE fp_entries(_)
fp_entries(d) ==
    IF d = <<>> THEN <<>>
    ELSE LET k == Head(d).k
             v == Head(d).v
         IN IF ~IsFalse(v)
            THEN <<k \o " " \o Str(v)>> \o fp_entries(Tail(d))
            ELSE fp_entries(Tail(d))

get_fp(self, fp_updates) ==
    LET fp_dict == IF fp_updates # <<>>
                   THEN Merge(self.fp_defaults, fp_updates)
                   ELSE self.fp_defaults
    IN JoinSemi(fp_entries(fp_dict))

\* Bottle keeps the keyword arguments of app.route() as the route's config
\* and flattens a dict argument {k: v} named p into the keys 'p.k'.
RECURSIVE PrefixKeys(_, _)
PrefixKeys(p, d) ==
    IF d = <<>> THEN <<>>
    ELSE <<Item(p \o "." \o Head(d).k, Head(d).v)>> \o PrefixKeys(p, Tail(d))

RECURSIVE route_config_of(_)
route_config_of(params) ==
    IF params = <<>> THEN <<>>
    ELSE PrefixKeys(Head(params).k, Head(params).v) \o route_config_of(Tail(params))

\* {k[prefix_len:]: v for k, v in route.config.items() if k[:prefix_len] == prefix}
RECURSIVE unflatten(_, _)
unflatten(rc, prefix) ==
    IF rc = <<>> THEN <<>>
    ELSE LET k == Head(rc).k
         IN IF SubSeq(k, 1, IF Len(k) < Len(prefix) THEN Len(k) ELSE Len(prefix)) = prefix
            THEN <<Item(SubSeq(k, Len(prefix) + 1, Len(k)), Head(rc).v)>>
                     \o unflatten(Tail(rc), prefix)
            ELSE unflatten(Tail(rc), prefix)

\* The header set apply() computes for a callback. has_route is FALSE when
\* the plugin is used as a plain decorator (__call__), and then rc is unused.
\* route.config.get('sh_updates') and its like are None: after the
\* flattening no key bears the bare name.
apply_headers(self, has_route, rc) ==
    LET sh_updates == IF has_route THEN unflatten(rc, "sh_updates.") ELSE <<>>
        csp_updates == IF has_route THEN unflatten(rc, "sh_csp_updates.") ELSE <<>>
        fp_updates == IF has_route THEN unflatten(rc, "sh_fp_updates.") ELSE <<>>
    IN Put(Put(get_sh(self, sh_updates),
               "Content-Security-Policy", S(get_csp(self, csp_updates))),
           "Feature-Policy", S(get_fp(self, fp_updates)))

\* A faulty ensure_headers: it sets every header, present or not.
RECURSIVE set_always(_, _)
set_always(r_headers, headers) ==
    IF headers = <<>> THEN r_headers
    ELSE set_always(Put(r_headers, Head(headers).k, S(Str(Head(headers).v))),
                    Tail(headers))

\* r.set_header(k, v) for every k, v of headers with k not in r.headers
RECURSIVE set_missing(_, _)
set_missing(r_headers, headers) ==
    IF headers = <<>> THEN r_headers
    ELSE set_missing(
             IF ~Has(r_headers, Head(headers).k)
             THEN Put(r_headers, Head(headers).k, S(Str(Head(headers).v)))
             ELSE r_headers,
             Tail(headers))

\* ensure_headers(r, headers): r is what the callback returned, response is
\* bottle's response object of the request; the pair after the call.
ensure_headers(r, response, headers) ==
    IF r.http
    THEN [r |-> [r EXCEPT !.headers = set_missing(r.headers, headers)],
          response |-> response]
    ELSE [r |-> r,
          response |-> [response EXCEPT
                            !.headers = set_missing(response.headers, headers)]]

-----------------------------------------------------------------------------
(* os.path (posixpath) *)

\* os.path.normcase: on POSIX it returns the path as it is
normcase(p) == p

\* os.path.join(a, b)
join(a, b) ==
    IF StartsWith(b, "/") THEN b
    ELSE IF a = "" \/ EndsWith(a, "/") THEN a \o b
    ELSE a \o "/" \o b

\* s.strip('/')
RECURSIVE strip_slashes(_)
strip_slashes(s) ==
    IF s = "" THEN ""
    ELSE IF StartsWith(s, "/") THEN strip_slashes(SubSeq(s, 2, Len(s)))
    ELSE IF EndsWith(s, "/") THEN strip_slashes(SubSeq(s, 1, Len(s) - 1))
    ELSE s

\* s.split('/'), from position i on, cur being the component read so far
RECURSIVE split_from(_, _, _)
split_from(s, i, cur) ==
    IF i > Len(s) THEN <<cur>>
    ELSE IF SubSeq(s, i, i) = "/" THEN <<cur>> \o split_from(s, i + 1, "")
    ELSE split_from(s, i + 1, cur \o SubSeq(s, i, i))

\* normpath's loop over the components of an absolute path: '' and '.' are
\* skipped, '..' drops the last component kept (none at the root)
RECURSIVE norm_comps(_, _)
norm_comps(comps, kept) ==
    IF comps = <<>> THEN kept
    ELSE LET c == Head(comps)
         IN IF c = "" \/ c = "." THEN norm_comps(Tail(comps), kept)
            ELSE IF c = ".."
            THEN norm_comps(Tail(comps),
                            IF kept = <<>> THEN kept
                            ELSE SubSeq(kept, 1, Len(kept) - 1))
            ELSE norm_comps(Tail(comps), Append(kept, c))

RECURSIVE join_comps(_)
join_comps(comps) ==
    IF comps = <<>> THEN "" ELSE "/" \o Head(comps) \o join_comps(Tail(comps))

\* The directory the server was started in.
cwd == "/srv"

\* os.path.abspath(p)
abspath(p) ==
    LET full == IF StartsWith(p, "/") THEN p ELSE join(cwd, p)
        comps == norm_comps(split_from(full, 1, ""), <<>>)
    IN IF comps = <<>> THEN "/" ELSE join_comps(comps)

RECURSIVE Contains(_, _)
Contains(s, sub) ==
    IF Len(s) < Len(sub) THEN FALSE
    ELSE StartsWith(s, sub) \/ Contains(SubSeq(s, 2, Len(s)), sub)

\* s.strip(), of blanks
RECURSIVE strip_blanks(_)
strip_blanks(s) ==
    IF s = "" THEN ""
    ELSE IF StartsWith(s, " ") THEN strip_blanks(SubSeq(s, 2, Len(s)))
    ELSE IF EndsWith(s, " ") THEN strip_blanks(SubSeq(s, 1, Len(s) - 1))
    ELSE s

-----------------------------------------------------------------------------
(* bottle's response objects, as main.py and the plugin use them *)

\* What a callback returns that is no HTTPResponse (a str, a dict): only its
\* body matters.
Plain(body) ==
    [http |-> FALSE, error |-> FALSE, status |-> 200, body |-> body,
     headers |-> <<>>, file |-> ""]

\* bottle.response at the start of a request
FreshResponse == Plain("")

HTTPResponse(status, body, headers, file) ==
    [http |-> TRUE, error |-> FALSE, status |-> status, body |-> body,
     headers |-> headers, file |-> file]

HTTPError(status, body) ==
    [http |-> TRUE, error |-> TRUE, status |-> status, body |-> body,
     headers |-> <<>>, file |-> ""]

\* History only: the file a failed lookup was for.
LookedUp(err, file) == [err EXCEPT !.file = file]

\* What the file system holds at a path, as static_file can tell.
FsKinds == {"file", "missing", "dir", "unreadable"}

\* bottle.static_file(filename, root, mimetype, headers), fs being what the
\* file system holds at the resolved path. mimetype "" stands for True
\* (guess from the name).
static_file(filename, root, mimetype, headers, fs) ==
    LET root1 == join(abspath(root), "")
        fname == abspath(join(root1, strip_slashes(filename)))
        ctype == IF mimetype = "" THEN "guessed/type" ELSE mimetype
    IN IF ~StartsWith(fname, root1)
       THEN LookedUp(HTTPError(403, "Access denied."), fname)
       ELSE IF fs \in {"missing", "dir"}
       THEN LookedUp(HTTPError(404, "File does not exist."), fname)
       ELSE IF fs = "unreadable"
       THEN LookedUp(HTTPError(403, "You do not have permission to access this file."),
                     fname)
       ELSE HTTPResponse(200, "file", Put(headers, "Content-Type", S(ctype)),
                         fname)

\* The outcome of running a callback: the exception it raised (raised, r
\* being the HTTPError), or what it returned (r) and bottle.response after it.
Raised(err, response) == [raised |-> TRUE, r |-> err, response |-> response]
Returned(r, response) == [raised |-> FALSE, r |-> r, response |-> response]

-----------------------------------------------------------------------------
(* main.py *)

DEFAULT_FILE_ROOT == "static"
DEFAULT_INDEX_FILE == "index.html"
DEFAULT_EXTRA_HEADERS == <<Item("Cache-Control", S("max-age=600"))>>

eh_headers == {"Cache-Control", "Access-Control-Allow-Origin"}

sh_headers ==
    {"Strict-Transport-Security", "Expect-CT", "Referrer-Policy",
     "Cross-Origin-Opener-Policy", "Cross-Origin-Embedder-Policy",
     "Cross-Origin-Resource-Policy", "X-XSS-Protection",
     "X-Content-Type-Options", "X-Frame-Options"}

build_eh_updates(cfg) == OnlyKeys(cfg.extraHeaders, eh_headers)

build_sh_updates(cfg) == OnlyKeys(cfg.securityHeaders, sh_headers)

build_csp_updates(cfg) == cfg.contentSecurityPolicy

build_pp_updates(cfg) == cfg.permissionsPolicy

\* A faulty serve_static_file: it returns what static_file returned.
serve_static_file_as_is(filename, root, mimetype, headers, fs, response) ==
    Returned(static_file(filename, root, mimetype, headers, fs), response)

serve_static_file(filename, root, mimetype, headers, fs, response) ==
    LET r == static_file(filename, root, mimetype, headers, fs)
    IN IF r.error /\ 400 <= r.status /\ r.status < 500
       THEN Raised(LookedUp(HTTPError(404, "Not Found"), r.file), response)
       ELSE Returned(r, response)

\* A route declaration with every optional key absent.
NoRoute ==
    [type |-> "", path |-> "", pathPrefix |-> "", method |-> "",
     indexFile |-> "", fileRoot |-> "", file |-> "", contentType |-> "",
     data |-> "", extraHeaders |-> <<>>, securityHeaders |-> <<>>,
     contentSecurityPolicy |-> <<>>, permissionsPolicy |-> <<>>]

\* The closure of a route callback: fn is the function, route the position
\* of its route in the order build_route is called (0: the probes).
NoCallback ==
    [fn |-> "", route |-> 0, index_file |-> "", file_root |-> "",
     filename |-> "", mimetype |-> "", extra_headers |-> <<>>, data |-> "",
     content_type |-> ""]

\* One app.route(rule, method=method, **config) call. kind "static" is a
\* rule without wildcard (prefix is the rule); kind "dyn" is the rule
\* prefix + '<file_path:re:.+>' + suffix.
Reg(kind, prefix, suffix, method, cb, rc) ==
    [kind |-> kind, prefix |-> prefix, suffix |-> suffix, method |-> method,
     cb |-> cb, config |-> rc]

\* The content type serve_text sets.
text_content_type(route_config) ==
    LET content_type == IF route_config.contentType # ""
                        THEN route_config.contentType ELSE "text/plain"
    IN IF SubSeq(content_type, 1,
                 IF Len(content_type) < 5 THEN Len(content_type) ELSE 5) = "text/"
          /\ ~Contains(content_type, "charset=")
       THEN strip_blanks(content_type) \o "; charset=UTF-8"
       ELSE content_type

\* A faulty index_file: the route's indexFile is not looked at.
index_file_default(route_config) == DEFAULT_INDEX_FILE

\* index_file of a directory route.
index_file_of(route_config) ==
    IF route_config.indexFile # "" THEN route_config.indexFile
    ELSE DEFAULT_INDEX_FILE

\* build_route(route_config): the app.route calls it makes, in the order it
\* makes them (of stacked decorators the lower one registers first).
build_route(route_config, idx, global_file_root, global_eh_updates) ==
    LET method == IF route_config.method # "" THEN route_config.method ELSE "GET"
        eh_updates == build_eh_updates(route_config)
        sh_updates == build_sh_updates(route_config)
        csp_updates == build_csp_updates(route_config)
        pp_updates == build_pp_updates(route_config)
        extra_headers ==
            DropFalse(Merge(Merge(DEFAULT_EXTRA_HEADERS, global_eh_updates),
                            eh_updates))
        extra_route_params ==
            << Item("sh_updates", sh_updates),
               Item("sh_csp_updates", csp_updates),
               Item("sh_pp_updates", pp_updates) >>
        rc == route_config_of(extra_route_params)
        cb == [NoCallback EXCEPT !.route = idx, !.extra_headers = extra_headers]
    IN CASE route_config.type = "directory" ->
              LET path_prefix == route_config.pathPrefix
                  file_root ==
                      IF route_config.fileRoot # ""
                      THEN join(global_file_root, route_config.fileRoot)
                      ELSE join(global_file_root,
                                normcase(SubSeq(path_prefix, 2, Len(path_prefix))))
                  roots == [cb EXCEPT !.fn = "serve_dir_roots",
                                      !.index_file = index_file_of(route_config),
                                      !.file_root = file_root]
                  files == [cb EXCEPT !.fn = "serve_dir_files",
                                      !.file_root = file_root]
              IN << Reg("dyn", path_prefix, "/", method, roots, rc),
                    Reg("static", path_prefix, "", method, roots, rc),
                    Reg("dyn", path_prefix, "", method, files, rc) >>
         [] route_config.type = "file" ->
              LET path == route_config.path
                  filename ==
                      IF route_config.file # ""
                      THEN join(global_file_root, route_config.file)
                      ELSE join(global_file_root,
                                normcase(SubSeq(path, 2, Len(path))))
              IN << Reg("static", path, "", method,
                        [cb EXCEPT !.fn = "serve_file", !.filename = filename,
                                   !.mimetype = route_config.contentType],
                        rc) >>
         [] route_config.type = "json" ->
              << Reg("static", route_config.path, "", method,
                     [cb EXCEPT !.fn = "serve_json", !.data = route_config.data],
                     rc) >>
         [] route_config.type = "text" ->
              << Reg("static", route_config.path, "", method,
                     [cb EXCEPT !.fn = "serve_text", !.data = route_config.data,
                                !.content_type = text_content_type(route_config)],
                     rc) >>

\* for route_config in route_configs: build_route(route_config)
RECURSIVE build_routes(_, _, _, _)
build_routes(route_configs, idx, global_file_root, global_eh_updates) ==
    IF route_configs = <<>> THEN <<>>
    ELSE build_route(Head(route_configs), idx, global_file_root, global_eh_updates)
         \o build_routes(Tail(route_configs), idx + 1, global_file_root,
                         global_eh_updates)

root_route_config(cfg) ==
    [NoRoute EXCEPT !.type = "directory", !.pathPrefix = "/",
                    !.indexFile = cfg.indexFile]

default_error_csp_updates ==
    << Item("style-src", S("'unsafe-inline'")), Item("img-src", S("'self'")) >>

\* app.install(security_headers): every route callback is wrapped by
\* security_headers.apply(callback, route), which computes the route's
\* header set once, from the route's config.
install(plugin, regs) ==
    [i \in DOMAIN regs |->
        [kind |-> regs[i].kind, prefix |-> regs[i].prefix,
         suffix |-> regs[i].suffix, method |-> regs[i].method,
         cb |-> regs[i].cb, config |-> regs[i].config,
         headers |-> apply_headers(plugin, TRUE, regs[i].config)]]

\* construct_app(config_file, file_root): the app it returns. regs are the
\* app.route calls in the order they are made; error_headers and
\* not_found_headers are the header sets of the two wrapped error handlers.
construct_app(cfg) ==
    LET file_root == DEFAULT_FILE_ROOT
        global_file_root == abspath(file_root)
        not_found_file == cfg.notFoundFile
        global_eh_updates == build_eh_updates(cfg)
        global_sh_updates == build_sh_updates(cfg)
        global_csp_updates == build_csp_updates(cfg)
        global_pp_updates == build_pp_updates(cfg)
        route_configs == cfg.routes
        security_headers ==
            SecurityHeadersPlugin([sh_updates |-> global_sh_updates,
                                   csp_updates |-> global_csp_updates,
                                   pp_updates |-> global_pp_updates])
        default_error_security_headers ==
            SecurityHeadersPlugin([csp_updates |-> default_error_csp_updates])
    IN [ type_error |-> security_headers.type_error,
         error_headers |->
             apply_headers(default_error_security_headers, FALSE, <<>>),
         regs |->
             install(security_headers,
                 << Reg("static", "/-/live", "", "GET",
                        [NoCallback EXCEPT !.fn = "live"], <<>>),
                    Reg("static", "/-/ready", "", "GET",
                        [NoCallback EXCEPT !.fn = "ready"], <<>>) >>
                 \o build_routes(route_configs, 1, global_file_root,
                                 global_eh_updates)
                 \o build_route(root_route_config(cfg), Len(route_configs) + 1,
                                global_file_root, global_eh_updates)),
         has_not_found |-> not_found_file # "",
         not_found_html |->
             IF not_found_file # ""
             THEN "contents of " \o join(file_root, not_found_file) ELSE "",
         not_found_headers |-> apply_headers(security_headers, FALSE, <<>>) ]

-----------------------------------------------------------------------------
(* bottle's router and request handling, as app.route and bottle.run use it *)

\* The rule of a registration matches the whole path.
RuleMatches(reg, path) ==
    IF reg.kind = "static" THEN path = reg.prefix
    ELSE /\ Len(path) > Len(reg.prefix) + Len(reg.suffix)
         /\ StartsWith(path, reg.prefix)
         /\ EndsWith(path, reg.suffix)

\* The wildcard's value
file_path_of(reg, path) ==
    SubSeq(path, Len(reg.prefix) + 1, Len(path) - Len(reg.suffix))

SameRule(a, b) ==
    /\ a.kind = b.kind /\ a.method = b.method
    /\ a.prefix = b.prefix /\ a.suffix = b.suffix

SetMin(X) == CHOOSE x \in X : \A y \in X : x <= y
SetMax(X) == CHOOSE x \in X : \A y \in X : x >= y

\* Router.add keeps one target per rule and method: adding a rule again
\* replaces the target and keeps the rule's place among the dynamic rules.
\* Router.match looks the path up among the static rules first and then
\* tries the dynamic rules in the order they were first added. The result:
\* status 200 and the registration whose callback runs, or 405 / 404.
match(regs, verb, path) ==
    LET hits == {i \in DOMAIN regs :
                     regs[i].method = verb /\ RuleMatches(regs[i], path)}
        statics == {i \in hits : regs[i].kind = "static"}
        dyns == {i \in hits : regs[i].kind = "dyn"}
        slot(i) == SetMin({j \in DOMAIN regs : SameRule(regs[j], regs[i])})
        last(i) == SetMax({j \in DOMAIN regs : SameRule(regs[j], regs[i])})
        first == CHOOSE i \in dyns : \A j \in dyns : slot(i) <= slot(j)
        others == {i \in DOMAIN regs :
                       regs[i].method # verb /\ RuleMatches(regs[i], path)}
    IN IF statics # {}
       THEN [status |-> 200, reg |-> SetMax(statics), has_file_path |-> FALSE,
             file_path |-> ""]
       ELSE IF dyns # {}
       THEN [status |-> 200, reg |-> last(first), has_file_path |-> TRUE,
             file_path |-> file_path_of(regs[first], path)]
       ELSE [status |-> IF others # {} THEN 405 ELSE 404, reg |-> 0,
             has_file_path |-> FALSE, file_path |-> ""]

\* for header, value in headers.items(): response.set_header(header, value)
RECURSIVE set_all(_, _)
set_all(response, headers) ==
    IF headers = <<>> THEN response
    ELSE set_all([response EXCEPT
                      !.headers = Put(@, Head(headers).k, S(Str(Head(headers).v)))],
                 Tail(headers))

\* A faulty serve_dir_roots: the sub-path is not joined in.
dir_roots_index_only(cb, has_file_path, file_path) == cb.index_file

\* serve_dir_roots: the file it asks for. file_path is None (has_file_path
\* FALSE) when the rule matched has no wildcard.
dir_roots_filename(cb, has_file_path, file_path) ==
    IF ~has_file_path THEN cb.index_file
    ELSE join(normcase(file_path), cb.index_file)

\* A route callback run on a matched request.
call(cb, has_file_path, file_path, fs, ready, response) ==
    CASE cb.fn = "live" -> Returned(Plain("Live"), response)
      [] cb.fn = "ready" ->
           IF ready THEN Returned(Plain("Ready"), response)
           ELSE Returned(Plain("Unavailable"), [response EXCEPT !.status = 503])
      [] cb.fn = "serve_dir_roots" ->
           serve_static_file(dir_roots_filename(cb, has_file_path, file_path),
                             cb.file_root, "", cb.extra_headers, fs, response)
      [] cb.fn = "serve_dir_files" ->
           serve_static_file(normcase(file_path), cb.file_root, "",
                             cb.extra_headers, fs, response)
      [] cb.fn = "serve_file" ->
           serve_static_file(cb.filename, "/", cb.mimetype, cb.extra_headers,
                             fs, response)
      [] cb.fn = "serve_json" ->
           Returned(Plain(cb.data), set_all(response, cb.extra_headers))
      [] cb.fn = "serve_text" ->
           Returned(Plain(cb.data),
                    [set_all(response, cb.extra_headers) EXCEPT
                         !.headers = Put(@, "Content-Type", S(cb.content_type))])

\* SecurityHeadersPlugin.apply's wrapper around a callback's outcome: an
\* exception passes through it.
wrapper(headers, outcome) ==
    IF outcome.raised THEN outcome
    ELSE LET e == ensure_headers(outcome.r, outcome.response, headers)
         IN Returned(e.r, e.response)

\* What goes out for a response object: the status, the body and the
\* headers set on it (with the default content type when none is set).
\* fn, route and file tell which callback produced it and from which file.
Sent(o, body, fn, route) ==
    [status |-> o.status, body |-> body,
     headers |-> IF Has(o.headers, "Content-Type") THEN o.headers
                 ELSE Put(o.headers, "Content-Type", S("text/html; charset=UTF-8")),
     fn |-> fn, route |-> route, file |-> o.file]

\* The default error handler's page for an HTTPError.
error_page(err) == "error page: " \o err.body

\* A faulty not_found: it is decorated with the error variant of the plugin.
handle_error_variant(a, err, fn, route) ==
    LET response == [FreshResponse EXCEPT !.status = err.status,
                                          !.file = err.file]
        custom == err.status = 404 /\ a.has_not_found
        body == IF custom THEN a.not_found_html ELSE error_page(err)
        out == wrapper(a.error_headers, Returned(Plain(body), response))
    IN Sent(out.response, out.r.body, fn, route)

\* An HTTPError on its way out: it replaces bottle.response's status and
\* headers, and the handler registered for its status (app.error(404) when
\* a notFoundFile is configured, else the wrapped default_error_handler)
\* renders the body.
handle_error(a, err, fn, route) ==
    LET response == [FreshResponse EXCEPT !.status = err.status,
                                          !.file = err.file]
        custom == err.status = 404 /\ a.has_not_found
        body == IF custom THEN a.not_found_html ELSE error_page(err)
        headers == IF custom THEN a.not_found_headers ELSE a.error_headers
        out == wrapper(headers, Returned(Plain(body), response))
    IN Sent(out.response, out.r.body, fn, route)

\* One request through the app: the response that goes out.
Handle(a, verb, path, fs, ready) ==
    LET m == match(a.regs, verb, path)
    IN IF m.status = 404
       THEN handle_error(a, HTTPError(404, "Not found: '" \o path \o "'"), "", 0)
       ELSE IF m.status = 405
       THEN handle_error(a, HTTPError(405, "Method not allowed."), "", 0)
       ELSE LET reg == a.regs[m.reg]
                cb == reg.cb
                out == wrapper(reg.headers,
                               call(cb, m.has_file_path, m.file_path, fs, ready,
                                    FreshResponse))
            IN IF out.raised THEN handle_error(a, out.r, cb.fn, cb.route)
               ELSE IF out.r.http THEN Sent(out.r, out.r.body, cb.fn, cb.route)
               ELSE IF cb.fn = "serve_json"
               THEN Sent([out.response EXCEPT
                              !.headers = Put(@, "Content-Type",
                                              S("application/json"))],
                         out.r.body, cb.fn, cb.route)
               ELSE Sent(out.response, out.r.body, cb.fn, cb.route)

-----------------------------------------------------------------------------
(* Bounds and the inputs drawn within them *)

MaxOverrides == 2    \* entries in one header-override section
MaxRoutes == 2       \* routes a configuration declares
MaxPreset == 2       \* headers a callback sets before the policy is applied
MaxSleep == 1        \* --shutdown-sleep, in ticks
MaxWait == 1         \* --shutdown-wait, in ticks
MaxInflight == 2     \* request greenlets in flight at once
MaxSignals == 2      \* shutdown signals delivered

Items(keys, vals) == {Item(k, v) : k \in keys, v \in vals}

\* The dicts of at most n items over the keys and values given.
Dicts(keys, vals, n) ==
    {d \in UNION {[1..m -> Items(keys, vals)] : m \in 0..n} :
        \A i, j \in DOMAIN d : i # j => d[i].k # d[j].k}

\* A configuration file that sets nothing.
DefaultConfig ==
    [notFoundFile |-> "", indexFile |-> "", extraHeaders |-> <<>>,
     securityHeaders |-> <<>>, contentSecurityPolicy |-> <<>>,
     permissionsPolicy |-> <<>>, routes |-> <<>>]

NoResp ==
    [req |-> [verb |-> "", path |-> "", fs |-> ""],
     out |-> Sent(FreshResponse, "", "", 0), sigs |-> 0]

\* The process before any signal, with no request in flight.
Running ==
    /\ SERVER_READY = TRUE
    /\ inflight = 0
    /\ waiters = <<>>
    /\ signals = 0
    /\ elapsed = 0
    /\ exit = ""

NoOptions == [shutdown_sleep |-> 0, shutdown_wait |-> 0]

\* One request served from start to end: the response that goes out.
Request(verbs, paths, kinds) ==
    /\ exit = ""
    /\ \E verb \in verbs, path \in paths, fs \in kinds :
           resp' = [req |-> [verb |-> verb, path |-> path, fs |-> fs],
                    out |-> Handle(app, verb, path, fs, SERVER_READY),
                    sigs |-> signals]
    /\ UNCHANGED <<config, app, options, SERVER_READY, inflight, waiters,
                   signals, elapsed, exit, h_in, h_out>>

-----------------------------------------------------------------------------
(* SpecLayers: one header family overridden globally and on the routes *)

Families ==
    {"extraHeaders", "securityHeaders", "contentSecurityPolicy",
     "permissionsPolicy"}

\* Per family: a name of the default table, a name outside it, and (for the
\* two families main.py filters) a name outside the list it lets through.
OverrideKeys(fam) ==
    CASE fam = "extraHeaders" ->
             {"Cache-Control", "Access-Control-Allow-Origin", "X-Extra"}
      [] fam = "securityHeaders" ->
             {"X-Frame-Options", "Cross-Origin-Opener-Policy", "X-Custom"}
      [] fam = "contentSecurityPolicy" -> {"default-src", "img-src", "script-src"}
      [] fam = "permissionsPolicy" -> {"camera", "clipboard-read", "usb"}

LayerRoutes(fam, r) ==
    << [NoRoute EXCEPT !.type = "text", !.path = "/robots.txt",
                       !.data = "User-agent: *", ![fam] = r],
       [NoRoute EXCEPT !.type = "directory", !.pathPrefix = "/docs/",
                       ![fam] = r] >>

LayerPaths == {"/robots.txt", "/docs/", "/other.html"}

LayersInit ==
    /\ \E fam \in Families :
         \E g \in Dicts(OverrideKeys(fam), {S("global"), PyFalse}, MaxOverrides),
            r \in Dicts(OverrideKeys(fam), {S("route"), PyFalse}, 1) :
           config = [DefaultConfig EXCEPT ![fam] = g,
                                          !.routes = LayerRoutes(fam, r)]
    /\ app = construct_app(config)
    /\ options = NoOptions
    /\ resp = NoResp
    /\ Running
    /\ h_in = "none" /\ h_out = "none"

LayersRequest == Request({"GET"}, LayerPaths, FsKinds)

LayersNext == LayersRequest

SpecLayers == LayersInit /\ [][LayersNext]_vars


(* What the specification says a layered family resolves to, stated without
   the code's merge. *)

\* The value the most specific layer gives a name: the route's override,
\* else the global override, else the default; PyFalse when no layer names it.
Decided(default, g, r, k) ==
    IF Has(r, k) THEN Get(r, k)
    ELSE IF Has(g, k) THEN Get(g, k)
    ELSE IF Has(default, k) THEN Get(default, k)
    ELSE PyFalse

\* The keys of d that are not in seen, in d's order.
RECURSIVE NewKeys(_, _)
NewKeys(d, seen) ==
    IF d = <<>> THEN <<>>
    ELSE IF Head(d).k \in seen THEN NewKeys(Tail(d), seen)
    ELSE <<Head(d).k>> \o NewKeys(Tail(d), seen)

\* Default-declaration order, then the names the overrides add, in the
\* order they were inserted (global before route).
DeclaredOrder(default, g, r) ==
    [i \in DOMAIN default |-> default[i].k]
        \o NewKeys(g, Keys(default))
        \o NewKeys(r, Keys(default) \cup Keys(g))

\* `<name> <value>`, the bare name for True, nothing for False or absence.
RECURSIVE SpecEntries(_, _, _, _)
SpecEntries(names, default, g, r) ==
    IF names = <<>> THEN <<>>
    ELSE LET k == Head(names)
             v == Decided(default, g, r, k)
             rest == SpecEntries(Tail(names), default, g, r)
         IN IF v = PyFalse THEN rest
            ELSE IF v = PyTrue THEN <<k>> \o rest
            ELSE <<k \o " " \o Str(v)>> \o rest

SpecSerialized(default, g, r) ==
    JoinSemi(SpecEntries(DeclaredOrder(default, g, r), default, g, r))

\* Header k of a response is what value v asks for: absent for False.
HeaderIs(headers, k, v) ==
    IF v = PyFalse THEN ~Has(headers, k)
    ELSE Has(headers, k) /\ Get(headers, k) = S(Str(v))

\* The declaration of the route that served a response: the catch-all's is
\* the one construct_app synthesizes.
ServingRoute(q) ==
    IF q.out.route <= Len(config.routes) THEN config.routes[q.out.route]
    ELSE root_route_config(config)

Served200(q) == q.req.verb # "" /\ q.out.status = 200 /\ q.out.route >= 1

LayeredNames(q, fam, names, default) ==
    \A k \in names :
        HeaderIs(q.out.headers, k,
                 Decided(default, config[fam], ServingRoute(q)[fam], k))

LayeredPolicy(q, fam, header, default) ==
    HeaderIs(q.out.headers, header,
             S(SpecSerialized(default, config[fam], ServingRoute(q)[fam])))

\* C1 for three of the four families (not a claim's formula: it shows where
\* the claim's failure lies).
LayeredExceptPermissions ==
    Served200(resp) =>
        /\ LayeredNames(resp, "extraHeaders", eh_headers, DEFAULT_EXTRA_HEADERS)
        /\ LayeredNames(resp, "securityHeaders", sh_headers, sh_defaults)
        /\ LayeredPolicy(resp, "contentSecurityPolicy",
                         "Content-Security-Policy", csp_defaults)

\* C1: in each of the four header families the value applied to a route's
\* responses is decided, name by name, by the most specific layer naming
\* it: the route's override, else the global override, else the default; a
\* string replaces, False removes, a name only an override has is added.
\* (For extra and security headers: the names the configuration admits.)
C1_LayeredOverrides ==
    Served200(resp) =>
        /\ LayeredNames(resp, "extraHeaders", eh_headers, DEFAULT_EXTRA_HEADERS)
        /\ LayeredNames(resp, "securityHeaders", sh_headers, sh_defaults)
        /\ LayeredPolicy(resp, "contentSecurityPolicy",
                         "Content-Security-Policy", csp_defaults)
        /\ LayeredPolicy(resp, "permissionsPolicy", "Feature-Policy",
                         fp_defaults)

-----------------------------------------------------------------------------
(* SpecRoutes: the routes a configuration declares, and the dispatch *)

RouteChoices ==
    { [NoRoute EXCEPT !.type = "directory", !.pathPrefix = "/docs/"],
      [NoRoute EXCEPT !.type = "directory", !.pathPrefix = "/docs/",
                      !.indexFile = "main.html"],
      [NoRoute EXCEPT !.type = "file", !.path = "/docs/page.html",
                      !.file = "page-v2.html"],
      [NoRoute EXCEPT !.type = "text", !.path = "/", !.data = "hello"],
      [NoRoute EXCEPT !.type = "text", !.path = "/docs", !.data = "docs"],
      [NoRoute EXCEPT !.type = "json", !.path = "/api", !.method = "POST",
                      !.data = "{}"] }

RoutePaths ==
    {"/", "/docs", "/docs/", "/docs/sub/", "/docs/page.html", "/api"}

RoutesInit ==
    /\ \E routes \in UNION {[1..n -> RouteChoices] : n \in 0..MaxRoutes},
          index \in {"", "home.html"} :
           config = [DefaultConfig EXCEPT !.routes = routes,
                                          !.indexFile = index]
    /\ app = construct_app(config)
    /\ options = NoOptions
    /\ resp = NoResp
    /\ Running
    /\ h_in = "none" /\ h_out = "none"

RoutesRequest == Request({"GET", "POST"}, RoutePaths, {"file", "dir"})

RoutesNext == RoutesRequest

SpecRoutes == RoutesInit /\ [][RoutesNext]_vars


\* The positions of the dispatch table: the declared routes in declaration
\* order, then the catch-all.
CatchAll == Len(config.routes) + 1
Table == 1..CatchAll

\* Route i has a rule matching the request.
RouteMatches(i, verb, path) ==
    \E n \in DOMAIN app.regs :
        /\ app.regs[n].cb.route = i
        /\ app.regs[n].method = verb
        /\ RuleMatches(app.regs[n], path)

Handled(q) == q.req.verb # ""

\* The routes appear in the registrations in table order, and the last of
\* them is the one catch-all: a directory route at / with the global root.
TableInOrder ==
    /\ \A m, n \in DOMAIN app.regs :
           m <= n => app.regs[m].cb.route <= app.regs[n].cb.route
    /\ \A i \in Table : \E n \in DOMAIN app.regs : app.regs[n].cb.route = i
    /\ \A n \in DOMAIN app.regs :
           app.regs[n].cb.route = CatchAll =>
               /\ app.regs[n].prefix = "/"
               /\ app.regs[n].cb.file_root = join(abspath(DEFAULT_FILE_ROOT), "")

\* C7: the dispatch table is the declared routes in declaration order and
\* then exactly one catch-all directory route, and a request is served by
\* the first route of the table that matches it (so by the explicit route
\* when both an explicit route and the catch-all match).
C7_FirstMatchInOrder ==
    /\ TableInOrder
    /\ Handled(resp) =>
         \A i \in Table :
             /\ RouteMatches(i, resp.req.verb, resp.req.path)
             /\ \A j \in Table :
                    j < i => ~RouteMatches(j, resp.req.verb, resp.req.path)
             => resp.out.route = i

\* The first directory route declared with prefix /docs/, 0 when there is none.
DocsRoutes ==
    {i \in DOMAIN config.routes :
        config.routes[i].type = "directory" /\ config.routes[i].pathPrefix = "/docs/"}
DocsRoute == IF DocsRoutes = {} THEN 0 ELSE SetMin(DocsRoutes)

\* A GET for path, with a /docs/ directory route declared and no other
\* declared route matching the request.
DocsRequest(q, path) ==
    /\ Handled(q) /\ q.req.verb = "GET" /\ q.req.path = path
    /\ DocsRoute # 0
    /\ \A i \in DOMAIN config.routes :
           i # DocsRoute => ~RouteMatches(i, "GET", path)

DocsRoot == join(join(abspath(DEFAULT_FILE_ROOT), "docs/"), "")
DocsIndex == index_file_of(config.routes[DocsRoute])

DocsIndexAndFiles ==
    /\ DocsRequest(resp, "/docs/") =>
           /\ resp.out.route = DocsRoute
           /\ resp.out.file = DocsRoot \o DocsIndex
    /\ DocsRequest(resp, "/docs/sub/") =>
           /\ resp.out.route = DocsRoute
           /\ resp.out.file = DocsRoot \o "sub/" \o DocsIndex
    /\ DocsRequest(resp, "/docs/page.html") =>
           /\ resp.out.route = DocsRoute
           /\ resp.out.file = DocsRoot \o "page.html"

\* C8 (as claimed): with a directory route at /docs/, the requests /docs/,
\* /docs and /docs/sub/ each resolve to the index file of their directory
\* under the route's root, and /docs/page.html to that file.
C8_DocsAsClaimed ==
    /\ DocsIndexAndFiles
    /\ DocsRequest(resp, "/docs") =>
           /\ resp.out.route = DocsRoute
           /\ resp.out.file = DocsRoot \o DocsIndex

\* C8 (amended): /docs/ and /docs/sub/ resolve to the index file of their
\* directory under the route's root and /docs/page.html to that file; /docs
\* is not the route's: the catch-all serves it as the file docs under the
\* global root, never as an index file.
C8_DocsResolution ==
    /\ DocsIndexAndFiles
    /\ DocsRequest(resp, "/docs") =>
           /\ resp.out.route = CatchAll
           /\ resp.out.fn = "serve_dir_files"
           /\ resp.out.file = join(abspath(DEFAULT_FILE_ROOT), "docs")

C8_Witness ==
    /\ DocsRequest(resp, "/docs")
    /\ resp.out.status = 404
    /\ resp.req.fs = "dir"

\* The index file a response of serve_dir_roots was looked up as.
ServesIndex(q, index) ==
    Handled(q) /\ q.out.fn = "serve_dir_roots" => EndsWith(q.out.file, "/" \o index)

OrDefault(name) == IF name # "" THEN name ELSE "index.html"

\* C10 (as claimed): every directory route serves as index the route's own
\* indexFile, else the global indexFile, else index.html.
C10_IndexAsClaimed ==
    ServesIndex(resp,
                IF ServingRoute(resp).indexFile # ""
                THEN ServingRoute(resp).indexFile
                ELSE OrDefault(config.indexFile))

\* C10 (amended): a declared directory route serves as index its own
\* indexFile, else index.html; only the catch-all serves the global
\* indexFile, else index.html.
C10_IndexFile ==
    ServesIndex(resp,
                IF resp.out.route = CatchAll THEN OrDefault(config.indexFile)
                ELSE OrDefault(config.routes[resp.out.route].indexFile))

C10_Witness ==
    /\ Handled(resp) /\ resp.out.fn = "serve_dir_roots"
    /\ resp.out.route # CatchAll
    /\ config.routes[resp.out.route].indexFile = ""
    /\ config.indexFile = "home.html"
    /\ resp.out.status = 200

-----------------------------------------------------------------------------
(* SpecErrors: failing file lookups and the 404 handlers *)

ErrorFamilies == {"securityHeaders", "contentSecurityPolicy"}

ErrorRoutes ==
    << [NoRoute EXCEPT !.type = "directory", !.pathPrefix = "/docs/",
                       !.contentSecurityPolicy =
                           <<Item("img-src", S("route"))>>],
       [NoRoute EXCEPT !.type = "file", !.path = "/robots.txt"] >>

ErrorPaths ==
    {"/", "/docs/", "/docs/a.html", "/docs/../../etc/passwd", "/robots.txt"}

ErrorsInit ==
    /\ \E fam \in ErrorFamilies, page \in {"", "404.html"} :
         \E g \in Dicts(OverrideKeys(fam), {S("global"), PyFalse}, MaxOverrides) :
           config = [DefaultConfig EXCEPT ![fam] = g, !.notFoundFile = page,
                                          !.routes = ErrorRoutes]
    /\ app = construct_app(config)
    /\ options = NoOptions
    /\ resp = NoResp
    /\ Running
    /\ h_in = "none" /\ h_out = "none"

ErrorsRequest == Request({"GET"}, ErrorPaths, FsKinds)

ErrorsNext == ErrorsRequest

SpecErrors == ErrorsInit /\ [][ErrorsNext]_vars

StaticFns == {"serve_dir_roots", "serve_dir_files", "serve_file"}

\* The body of a 404: the configured page, else the default error page
\* with the fixed message.
NotFoundBody ==
    IF config.notFoundFile # ""
    THEN "contents of " \o join(DEFAULT_FILE_ROOT, config.notFoundFile)
    ELSE "error page: Not Found"

\* C4: a request to a directory or file route whose lookup fails (no such
\* file, a directory, an unreadable file, a path outside the root) is
\* answered 404 with the generic body or the configured page, never with
\* the file layer's own status or text; only a readable file inside the
\* root is answered 200.
C4_LookupFailureIs404 ==
    Handled(resp) /\ resp.out.fn \in StaticFns =>
        /\ resp.out.status \in {200, 404}
        /\ resp.out.status = 200 =>
               /\ resp.req.fs = "file"
               /\ ~Contains(resp.req.path, "..")
        /\ resp.out.status = 404 => resp.out.body = NotFoundBody
        /\ resp.req.fs # "file" \/ Contains(resp.req.path, "..") =>
               resp.out.status = 404

C4_Witness ==
    /\ Handled(resp)
    /\ resp.req.path = "/docs/../../etc/passwd"
    /\ resp.req.fs = "file"
    /\ resp.out.status = 404
    /\ resp.out.file = "/srv/etc/passwd"
    /\ config.notFoundFile # ""

ErrorVariantCsp ==
    "default-src 'none'; base-uri 'none'; form-action 'none'; "
        \o "frame-ancestors 'none'; block-all-mixed-content; "
        \o "style-src 'unsafe-inline'; img-src 'self'"

\* The error-variant policy: the default security headers, the default CSP
\* relaxed by inline styles and same-origin images, whatever the
\* configuration overrides.
ErrorVariant(q) ==
    /\ \A k \in sh_headers :
           HeaderIs(q.out.headers, k, Decided(sh_defaults, <<>>, <<>>, k))
    /\ HeaderIs(q.out.headers, "Content-Security-Policy", S(ErrorVariantCsp))
    /\ Has(q.out.headers, "Feature-Policy")

\* The global policy: the defaults under the configuration's global
\* overrides, and no route's overrides.
GlobalPolicy(q) ==
    /\ \A k \in sh_headers :
           HeaderIs(q.out.headers, k,
                    Decided(sh_defaults, config.securityHeaders, <<>>, k))
    /\ HeaderIs(q.out.headers, "Content-Security-Policy",
                S(SpecSerialized(csp_defaults, config.contentSecurityPolicy, <<>>)))
    /\ Has(q.out.headers, "Feature-Policy")

Is404(q) == Handled(q) /\ q.out.status = 404

\* C9 (as claimed): every 404 carries the error-variant policy, with the
\* generic body or, when a notFoundFile is configured, that page's body.
C9_ErrorVariantAsClaimed ==
    Is404(resp) => resp.out.body = NotFoundBody /\ ErrorVariant(resp)

\* C9 (amended): every 404 carries policy headers; without a notFoundFile
\* it is the generic body under the error-variant policy, independent of
\* the configured overrides; with a notFoundFile it is that page's body,
\* loaded at startup, under the global policy (global overrides applied, no
\* route's overrides), not the error variant.
C9_NotFoundPolicy ==
    Is404(resp) =>
        /\ resp.out.body = NotFoundBody
        /\ IF config.notFoundFile = "" THEN ErrorVariant(resp)
           ELSE GlobalPolicy(resp)

C9_Witness ==
    /\ Is404(resp)
    /\ config.notFoundFile # ""
    /\ config.contentSecurityPolicy # <<>>
    /\ resp.out.route = 1

-----------------------------------------------------------------------------
(* SpecLife: requests, the shutdown signal and the wait() greenlet *)

LifePaths == {"/-/ready", "/-/live"}

LifeInit ==
    /\ config = DefaultConfig
    /\ app = construct_app(config)
    /\ options \in [shutdown_sleep : 0..MaxSleep, shutdown_wait : 0..MaxWait]
    /\ resp = NoResp
    /\ Running
    /\ h_in = "none" /\ h_out = "none"

\* The server spawns a greenlet of gevent_pool for a request; it runs the
\* callback to its end without yielding, and stays in the pool until its
\* response is written.
StartRequest ==
    /\ exit = ""
    /\ inflight < MaxInflight
    /\ \E path \in LifePaths :
           resp' = [req |-> [verb |-> "GET", path |-> path, fs |-> "file"],
                    out |-> Handle(app, "GET", path, "file", SERVER_READY),
                    sigs |-> signals]
    /\ inflight' = inflight + 1
    /\ UNCHANGED <<config, app, options, SERVER_READY, waiters, signals,
                   elapsed, exit, h_in, h_out>>

FinishRequest ==
    /\ exit = ""
    /\ inflight > 0
    /\ inflight' = inflight - 1
    /\ UNCHANGED <<config, app, options, SERVER_READY, resp, waiters, signals,
                   elapsed, exit, h_in, h_out>>

\* A faulty shutdown(): the flag is left as it is.
shutdown_ready ==
    /\ SERVER_READY' = SERVER_READY
    /\ waiters' = Append(waiters, [pc |-> "sleep", left |-> options.shutdown_sleep])

\* shutdown(): it clears the flag, spawns wait() and returns; wait() begins
\* with the sleep.
shutdown ==
    /\ SERVER_READY' = FALSE
    /\ waiters' = Append(waiters, [pc |-> "sleep", left |-> options.shutdown_sleep])

\* nice_shutdown calls shutdown() on every shutdown signal.
Signal ==
    /\ exit = ""
    /\ signals < MaxSignals
    /\ shutdown
    /\ signals' = signals + 1
    /\ UNCHANGED <<config, app, options, resp, inflight, elapsed, exit, h_in,
                   h_out>>

\* Time passes while a sleep or a join timeout is running.
Tick ==
    /\ exit = ""
    /\ \E w \in DOMAIN waiters : waiters[w].left > 0
    /\ waiters' = [w \in DOMAIN waiters |->
                      IF waiters[w].left > 0
                      THEN [waiters[w] EXCEPT !.left = @ - 1] ELSE waiters[w]]
    /\ elapsed' = IF elapsed < options.shutdown_sleep THEN elapsed + 1 ELSE elapsed
    /\ UNCHANGED <<config, app, options, SERVER_READY, resp, inflight, signals,
                   exit, h_in, h_out>>

\* wait(): time.sleep(shutdown_sleep) returns, and gevent_pool.join(timeout=
\* shutdown_wait) starts.
wait_sleep(w) ==
    /\ exit = ""
    /\ w \in DOMAIN waiters
    /\ waiters[w].pc = "sleep"
    /\ waiters[w].left = 0
    /\ waiters' = [waiters EXCEPT ![w] = [pc |-> "join",
                                          left |-> options.shutdown_wait]]
    /\ UNCHANGED <<config, app, options, SERVER_READY, resp, inflight, signals,
                   elapsed, exit, h_in, h_out>>

\* A faulty wait(): join() without its timeout.
wait_join_forever(w) ==
    /\ exit = ""
    /\ w \in DOMAIN waiters
    /\ waiters[w].pc = "join"
    /\ inflight = 0
    /\ waiters' = [waiters EXCEPT ![w].pc = "exit"]
    /\ exit' = "drained"
    /\ UNCHANGED <<config, app, options, SERVER_READY, resp, inflight, signals,
                   elapsed, h_in, h_out>>

\* wait(): join() returns, the pool being empty or the timeout over, and
\* sys.exit() ends the process.
wait_join(w) ==
    /\ exit = ""
    /\ w \in DOMAIN waiters
    /\ waiters[w].pc = "join"
    /\ inflight = 0 \/ waiters[w].left = 0
    /\ waiters' = [waiters EXCEPT ![w].pc = "exit"]
    /\ exit' = IF inflight = 0 THEN "drained" ELSE "timeout"
    /\ UNCHANGED <<config, app, options, SERVER_READY, resp, inflight, signals,
                   elapsed, h_in, h_out>>

WaitStep == \E w \in 1..MaxSignals : wait_sleep(w) \/ wait_join(w)

LifeNext ==
    \/ StartRequest
    \/ FinishRequest
    \/ Signal
    \/ Tick
    \/ \E w \in 1..MaxSignals : wait_sleep(w)
    \/ \E w \in 1..MaxSignals : wait_join(w)

SpecLife == LifeInit /\ [][LifeNext]_vars

\* gevent runs its timers and the greenlets that are ready.
SpecLifeFair == SpecLife /\ WF_vars(Tick) /\ WF_vars(WaitStep)

ProbeAnswer(q) ==
    Handled(q) /\ q.req.path = "/-/ready" =>
        IF q.sigs = 0
        THEN q.out.status = 200 /\ q.out.body = "Ready"
        ELSE q.out.status = 503 /\ q.out.body = "Unavailable"

\* C5: the readiness flag starts true, is false from the first shutdown
\* signal on and never true again; GET /-/ready answers 200 Ready before the
\* signal and 503 Unavailable after it, however probes and signals (also
\* repeated ones) interleave.
C5_Readiness ==
    /\ [](SERVER_READY = (signals = 0) /\ ProbeAnswer(resp))
    /\ [][SERVER_READY' => SERVER_READY]_vars

C5_Witness ==
    /\ Handled(resp) /\ resp.req.path = "/-/ready"
    /\ resp.sigs >= 2
    /\ resp.out.status = 503

ShutdownOrder ==
    /\ \A w \in DOMAIN waiters :
           waiters[w].pc # "sleep" =>
               ~SERVER_READY /\ elapsed = options.shutdown_sleep
    /\ exit # "" =>
           /\ ~SERVER_READY
           /\ elapsed = options.shutdown_sleep
           /\ \E w \in DOMAIN waiters :
                  /\ waiters[w].pc = "exit"
                  /\ exit = "timeout" => waiters[w].left = 0
    /\ exit = "drained" => inflight = 0
    /\ exit = "timeout" => inflight > 0

\* C6: after a shutdown signal the coordinator sets readiness false and
\* returns from the signal handler at once; its greenlet sleeps the grace
\* interval, then waits for the in-flight requests for at most the wait
\* timeout, then exits. The process never exits before the grace sleep is
\* over, and it always exits after a signal, also with requests outstanding
\* at the timeout.
C6_ShutdownSequence ==
    /\ []ShutdownOrder
    /\ [][signals' # signals =>
             /\ exit' = ""
             /\ ~SERVER_READY'
             /\ waiters'[Len(waiters')] =
                    [pc |-> "sleep", left |-> options.shutdown_sleep]]_vars
    /\ (signals > 0) ~> (exit # "")

C6_Witness ==
    /\ exit = "timeout"
    /\ inflight > 0
    /\ options.shutdown_sleep > 0
    /\ options.shutdown_wait > 0

-----------------------------------------------------------------------------
(* SpecEnsure: the plugin's wrapper over a callback that set headers *)

PresetNames ==
    {"Content-Type", "Cache-Control", "X-Frame-Options",
     "Content-Security-Policy"}

EnsureUpdates ==
    { <<>>,
      <<Item("X-Frame-Options", PyFalse)>>,
      <<Item("Cross-Origin-Opener-Policy", S("same-origin"))>> }

NotRun == [done |-> FALSE, r |-> Plain(""), response |-> FreshResponse,
           headers |-> <<>>, value |-> ""]

EnsureInit ==
    /\ h_in \in [http : BOOLEAN,
                 preset : Dicts(PresetNames, {S("set by the handler")}, MaxPreset),
                 updates : EnsureUpdates]
    /\ h_out = NotRun
    /\ config = DefaultConfig
    /\ app = construct_app(config)
    /\ options = NoOptions
    /\ resp = NoResp
    /\ Running

\* The wrapper apply() returns, run for a route with the sh_updates given:
\* the callback has set the preset headers, on the HTTPResponse it returns
\* (http) or on bottle.response, returning a str.
Wrap ==
    /\ ~h_out.done
    /\ LET headers ==
               apply_headers(SecurityHeadersPlugin(<<>>), TRUE,
                             route_config_of(<<Item("sh_updates", h_in.updates)>>))
           callback ==
               IF h_in.http
               THEN Returned(HTTPResponse(200, "file", h_in.preset, ""),
                             FreshResponse)
               ELSE Returned(Plain("text"),
                             [FreshResponse EXCEPT !.headers = h_in.preset])
           out == wrapper(headers, callback)
       IN h_out' = [done |-> TRUE, r |-> out.r, response |-> out.response,
                    headers |-> headers, value |-> ""]
    /\ UNCHANGED <<config, app, options, SERVER_READY, resp, inflight, waiters,
                   signals, elapsed, exit, h_in>>

EnsureNext == Wrap

SpecEnsure == EnsureInit /\ [][EnsureNext]_vars

\* The headers of the object the callback set its headers on, and of the
\* other one.
Target == IF h_in.http THEN h_out.r.headers ELSE h_out.response.headers
Other == IF h_in.http THEN h_out.response.headers ELSE h_out.r.headers

\* C2: applying the policy sets a header only when the response has none of
\* that name: every header the handler set keeps the handler's value, and
\* every policy header not yet set is added with the policy's value.
C2_SetOnlyIfAbsent ==
    h_out.done =>
        /\ SubSeq(Target, 1, Len(h_in.preset)) = h_in.preset
        /\ \A k \in Keys(h_out.headers) \ Keys(h_in.preset) :
               Has(Target, k) /\ Get(Target, k) = Get(h_out.headers, k)
        /\ Keys(Target) = Keys(h_in.preset) \cup Keys(h_out.headers)
        /\ Other = <<>>
        /\ {"Strict-Transport-Security", "Content-Security-Policy",
            "Feature-Policy"} \subseteq Keys(Target)

C2_Witness ==
    /\ h_out.done
    /\ ~h_in.http
    /\ Has(h_in.preset, "Content-Type")
    /\ Has(h_in.preset, "Content-Security-Policy")
    /\ Get(Target, "Content-Security-Policy") = S("set by the handler")
    /\ Has(Target, "Feature-Policy")

-----------------------------------------------------------------------------
(* SpecSerialize: get_csp and get_fp on a plugin built with overrides *)

SerialKeys(fam) ==
    IF fam = "csp" THEN {"default-src", "img-src", "script-src"}
    ELSE {"camera", "clipboard-read", "usb"}

SerialValues == {S("'self'"), PyTrue, PyFalse}

SerializeInit ==
    /\ \E fam \in {"csp", "fp"} :
         \E g \in Dicts(SerialKeys(fam), SerialValues, 1),
            r \in Dicts(SerialKeys(fam), SerialValues, MaxOverrides) :
           h_in = [family |-> fam, init |-> g, updates |-> r]
    /\ h_out = NotRun
    /\ config = DefaultConfig
    /\ app = construct_app(config)
    /\ options = NoOptions
    /\ resp = NoResp
    /\ Running

Serialize ==
    /\ ~h_out.done
    /\ h_out' =
           [NotRun EXCEPT
               !.done = TRUE,
               !.value =
                   IF h_in.family = "csp"
                   THEN get_csp(SecurityHeadersPlugin([csp_updates |-> h_in.init]),
                                h_in.updates)
                   ELSE get_fp(SecurityHeadersPlugin([fp_updates |-> h_in.init]),
                               h_in.updates)]
    /\ UNCHANGED <<config, app, options, SERVER_READY, resp, inflight, waiters,
                   signals, elapsed, exit, h_in>>

SerializeNext == Serialize

SpecSerialize == SerializeInit /\ [][SerializeNext]_vars

SerialDefaults == IF h_in.family = "csp" THEN csp_defaults ELSE fp_defaults

\* The specification's example: a global CSP override of img-src.
CspExample ==
    /\ h_in.family = "csp"
    /\ h_in.init = <<Item("img-src", S("'self'"))>>
    /\ h_in.updates = <<>>
    => h_out.value =
           "default-src 'none'; base-uri 'none'; form-action 'none'; "
               \o "frame-ancestors 'none'; block-all-mixed-content; img-src 'self'"

\* C3 for the Content-Security-Policy alone (not a claim's formula: it shows
\* where the claim's failure lies).
CspSerialized ==
    h_out.done /\ h_in.family = "csp" =>
        /\ h_out.value = SpecSerialized(csp_defaults, h_in.init, h_in.updates)
        /\ CspExample

\* C3: for Content-Security-Policy and Permissions-Policy alike the header
\* value lists the directives in default-declaration order followed by the
\* names overrides add in insertion order, a directive as `<name> <value>`,
\* as the bare name when its value is True, not at all when it is False or
\* absent, joined by `; ` with no trailing separator.
C3_Serialization ==
    h_out.done =>
        /\ h_out.value = SpecSerialized(SerialDefaults, h_in.init, h_in.updates)
        /\ CspExample

====
